---- MODULE Spec2Model ----
(***************************************************************************)
(* Model of src/src/main.rs: a Sudoku solver by constraint propagation     *)
(* (assign / eliminate) and backtracking search, after Norvig.             *)
(*                                                                         *)
(* The source fixes the grid at box side 3 (9 digits, 81 cells).  The      *)
(* code is uniform in that number, and every operator below is written    *)
(* over BoxSide.  The state machines are explored on the instance         *)
(* BoxSide = 2 (4 digits, 16 cells, 12 units, 288 completed grids), on     *)
(* which the whole input space within the bounds and the whole set of     *)
(* completed grids can be enumerated; make_units is also evaluated at the  *)
(* source's side, SourceBoxSide = 3.                                       *)
(*                                                                         *)
(* A Rust Vec is a sequence here (1-based), a board is a function from     *)
(* the cell index (0-based, as in the source) to the Vec of candidates.    *)
(* The mutual recursion of assign, eliminate and search is run on a stack  *)
(* of call frames, a bounded number of steps at a time; the loops of       *)
(* solved and of solve_puzzle run their range in order, by halves.  Both   *)
(* keep the depth of evaluation low and change nothing of the result.      *)
(***************************************************************************)
EXTENDS Integers, Sequences, FiniteSets, TLC

\* Box side of the explored instance (the source's is SourceBoxSide).
BoxSide == 2
\* Box side of the source: the three-element groups of line 171.
SourceBoxSide == 3

\* Number of digits, `(1..10)` of line 51, and of cells, `81` of line 53.
N == BoxSide * BoxSide
NCells == N * N
Cells == 0 .. (NCells - 1)
Values == 1 .. N

\* Bounds of the exploration.
\* Well-formed puzzles carry at most MaxClues given digits.
MaxClues == 2
\* and carry them at the cells 0 .. MaxCell.
MaxCell == 5
\* Ragged inputs end in at most MaxTail arbitrary characters.
MaxTail == 2
\* The Board harness applies at most MaxOps operations to a board, each at
\* a cell in 0 .. MaxCell.
MaxOps == 2
\* A call of assign, eliminate or search is followed for MaxSteps steps.
MaxSteps == 256

OpCells == 0 .. MaxCell

Range(q) == {q[i] : i \in 1 .. Len(q)}

RECURSIVE Flatten(_)
Flatten(qq) == IF qq = <<>> THEN <<>> ELSE Head(qq) \o Flatten(Tail(qq))

-----------------------------------------------------------------------------
(* Vec helpers *)

\* Vec::contains
contains(set, v) == \E i \in 1 .. Len(set) : set[i] = v

\* delete (lines 24-28): remove the first occurrence of v, if any.
delete(set, v) ==
    IF contains(set, v)
    THEN LET i == CHOOSE k \in 1 .. Len(set) :
                      set[k] = v /\ \A j \in 1 .. (k - 1) : set[j] # v
         IN SubSeq(set, 1, i - 1) \o SubSeq(set, i + 1, Len(set))
    ELSE set

\* Board::new (lines 49-54): every cell holds 1..N in ascending order.
new == [c \in Cells |-> [k \in 1 .. N |-> k]]

\* Index / IndexMut for Board (lines 30-40): constraints[i] panics unless
\* i is an index of the Vec.
index_ok(b, i) == i \in DOMAIN b

-----------------------------------------------------------------------------
(* make_units (lines 152-206) *)

\* A unit_set of the columns and the rows, without the boxes.
unit_set_no_box(bs) ==
    LET n == bs * bs
    IN [col \in 1 .. n |-> [row \in 1 .. n |-> (row - 1) * n + (col - 1)]]
       \o [row \in 1 .. n |-> [col \in 1 .. n |-> (row - 1) * n + (col - 1)]]

\* unit_set (lines 153-181): the columns, then the rows, then the boxes,
\* each in the order the loops push the cells.
unit_set(bs) ==
    LET n == bs * bs
        groups == [g \in 1 .. bs |-> [k \in 1 .. bs |-> (g - 1) * bs + (k - 1)]]
    IN [col \in 1 .. n |-> [row \in 1 .. n |-> (row - 1) * n + (col - 1)]]
       \o [row \in 1 .. n |-> [col \in 1 .. n |-> (row - 1) * n + (col - 1)]]
       \o [bi \in 1 .. n |->
             [e \in 1 .. n |->
                groups[((bi - 1) \div bs) + 1][((e - 1) \div bs) + 1] * n
                + groups[((bi - 1) % bs) + 1][((e - 1) % bs) + 1]]]

\* units[cell]: the units holding the cell, in unit_set order (lines 186-191).
cell_units(bs, cell) == SelectSeq(unit_set(bs), LAMBDA u : cell \in Range(u))

\* A peer list that leaves out the box unit (the last unit of a cell).
make_units_no_box(bs) ==
    LET units == [cell \in 0 .. (bs * bs * bs * bs - 1) |-> cell_units(bs, cell)]
    IN [units |-> units,
        peers |-> [cell \in DOMAIN units |->
                     Flatten(SubSeq(units[cell], 1, Len(units[cell]) - 1))]]

\* peers[cell]: the units of the cell appended to one another (lines 193-200);
\* nothing is taken out, so the cell itself is in the list once per unit.
make_units(bs) ==
    LET units == [cell \in 0 .. (bs * bs * bs * bs - 1) |-> cell_units(bs, cell)]
    IN [units |-> units,
        peers |-> [cell \in DOMAIN units |-> Flatten(units[cell])]]

-----------------------------------------------------------------------------
(* Board::solved (lines 59-76) *)

Failed == [tag |-> "Failed", cell |-> NCells]
Done == [tag |-> "Done", cell |-> NCells]
NextCell(c) == [tag |-> "Next", cell |-> c]

\* The loop's locals (lines 60-61), and `failed` once line 65 returned.
scanStart == [failed |-> FALSE, cell |-> NCells, best |-> N + 1]

\* A loop body with `l <= best`: the last of the smallest cells wins.
scanCell_last(b, a, i) ==
    CASE Len(b[i]) = 0 -> [a EXCEPT !.failed = TRUE]
      [] Len(b[i]) > 1 /\ Len(b[i]) <= a.best -> [a EXCEPT !.cell = i, !.best = Len(b[i])]
      [] OTHER -> a

\* The loop body of lines 63-70 at cell i.
scanCell(b, a, i) ==
    CASE Len(b[i]) = 0 -> [a EXCEPT !.failed = TRUE]
      [] Len(b[i]) > 1 /\ Len(b[i]) < a.best -> [a EXCEPT !.cell = i, !.best = Len(b[i])]
      [] OTHER -> a

\* The loop of lines 62-71 over the cells lo .. hi in order, by halves.
RECURSIVE scan(_, _, _, _)
scan(b, a, lo, hi) ==
    CASE a.failed \/ lo > hi -> a
      [] lo = hi -> scanCell(b, a, lo)
      [] OTHER -> scan(b, scan(b, a, lo, (lo + hi) \div 2), (lo + hi) \div 2 + 1, hi)

\* Lines 59-76.
solved(b) ==
    LET a == scan(b, scanStart, 0, NCells - 1)
    IN CASE a.failed -> Failed
         [] a.cell = NCells -> Done
         [] OTHER -> NextCell(a.cell)

-----------------------------------------------------------------------------
(* Board::assign, Board::eliminate and Board::search (lines 78-148) as the  *)
(* machine their mutual recursion runs on: a register b for the board the   *)
(* calls mutate in place, a stack of the calls in progress, and the value   *)
(* the last call returned.  A frame holds what the source's locals hold at  *)
(* the point the call is suspended at:                                      *)
(*   assign     c, cs (the snapshot of line 79-80), i (next index into cs)  *)
(*   eliminate  c, v, val (others[0]), at "peers" (loop of lines 100-106)   *)
(*              or "units" (loop of lines 108-124), i (next index)          *)
(*   search     self, c (the cell of Next(c)), i (index of the candidate    *)
(*              under trial), at "loop" / "assign" / "search"               *)
(* A loop iteration whose call returns true at once and changes nothing     *)
(* (eliminate at lines 90-92 for a value the cell does not hold, assign of  *)
(* the only candidate a cell has) is passed over within the step.           *)

None == [some |-> FALSE, b |-> <<>>]
Some(b) == [some |-> TRUE, b |-> b]

\* ret: "none" while no call has just returned, else "true" / "false":
\* the bool of assign and eliminate; for search, Some (in out) / None.
Machine(b) == [b |-> b, stk |-> <<>>, ret |-> "none", out |-> None]

Top(m) == m.stk[Len(m.stk)]
SetTop(m, f) == [m EXCEPT !.stk[Len(m.stk)] = f, !.ret = "none"]
Push(m, f) == [m EXCEPT !.stk = Append(@, f), !.ret = "none"]
Return(m, x) == [m EXCEPT !.stk = SubSeq(@, 1, Len(@) - 1), !.ret = x]

\* The least index in lo..hi that satisfies P, or 0.
First(lo, hi, P(_)) ==
    IF \E k \in lo .. hi : P(k)
    THEN CHOOSE k \in lo .. hi : P(k) /\ \A j \in lo .. (k - 1) : ~P(j)
    ELSE 0

\* The call eliminate(c, v) for a v the cell holds, up to its first loop
\* (lines 93-99): with no candidate left it returns false at once.
EnterEliminate(m, c, v) ==
    LET b1 == [m.b EXCEPT ![c] = delete(@, v)]
        others == b1[c]
    IN IF Len(others) = 0 THEN [m EXCEPT !.b = b1, !.ret = "false"]
       ELSE Push([m EXCEPT !.b = b1],
                 [op |-> "eliminate", c |-> c, v |-> v, i |-> 1,
                  at |-> IF Len(others) = 1 THEN "peers" ELSE "units",
                  val |-> others[1]])

\* The call assign(c, v) up to its loop (lines 79-80).
EnterAssign(m, c, v) ==
    Push(m, [op |-> "assign", c |-> c, cs |-> delete(m.b[c], v), i |-> 1])

\* The loop of assign (lines 81-86) from the frame's index on.
StepAssign(pr, m, f) ==
    LET j == First(f.i, Len(f.cs), LAMBDA k : contains(m.b[f.c], f.cs[k]))
    IN IF j = 0 THEN Return(m, "true")
       ELSE EnterEliminate(SetTop(m, [f EXCEPT !.i = j + 1]), f.c, f.cs[j])

\* The places of line 109-114: the cells of unit u that hold v.
Places(b, u, v) == SelectSeq(u, LAMBDA cell : contains(b[cell], v))

\* A unit loop that sees two places in every unit.
NextUnit_none(pr, b, c, v, i) == 0

\* The next unit from index i on whose match arm is not `continue`: no
\* place is left, or one place that assign still has to narrow down.
NextUnit(pr, b, c, v, i) ==
    First(i, Len(pr.units[c]),
          LAMBDA k : \/ Len(Places(b, pr.units[c][k], v)) = 0
                     \/ /\ Len(Places(b, pr.units[c][k], v)) = 1
                        /\ Len(b[Places(b, pr.units[c][k], v)[1]]) > 1)

\* The loop over the units (lines 108-126) from the frame's index on.
StepUnits(pr, m, f) ==
    LET j == NextUnit(pr, m.b, f.c, f.v, f.i)
    IN CASE j = 0 -> Return(m, "true")
         [] j # 0 /\ Len(Places(m.b, pr.units[f.c][j], f.v)) = 0 -> Return(m, "false")
         [] OTHER -> EnterAssign(SetTop(m, [f EXCEPT !.at = "units", !.i = j + 1]),
                        Places(m.b, pr.units[f.c][j], f.v)[1], f.v)

\* The next peer from index i on that is not the cell itself (line 101)
\* and holds val.
NextPeer(pr, b, c, val, i) ==
    First(i, Len(pr.peers[c]),
          LAMBDA k : pr.peers[c][k] # c /\ contains(b[pr.peers[c][k]], val))

\* The loop over the peers (lines 100-106) from the frame's index on, and
\* after it the loop over the units.
StepPeers(pr, m, f) ==
    LET j == NextPeer(pr, m.b, f.c, f.val, f.i)
    IN IF j = 0 THEN StepUnits(pr, m, [f EXCEPT !.at = "units", !.i = 1])
       ELSE EnterEliminate(SetTop(m, [f EXCEPT !.i = j + 1]), pr.peers[f.c][j], f.val)

\* The call search on board x up to its loop (lines 131-135).
EnterSearch(m, x) ==
    CASE solved(x).tag = "Failed" -> [m EXCEPT !.ret = "false", !.out = None]
      [] solved(x).tag = "Done" -> [m EXCEPT !.ret = "true", !.out = Some(x)]
      [] OTHER -> Push(m, [op |-> "search", self |-> x, c |-> solved(x).cell,
                           i |-> 1, at |-> "loop"])

\* A search that tries the first candidate of the cell only.
StepSearch_first(pr, m, f) ==
    IF f.i > 1 THEN [Return(m, "false") EXCEPT !.out = None]
    ELSE EnterAssign([SetTop(m, [f EXCEPT !.at = "assign"]) EXCEPT !.b = f.self],
                     f.c, f.self[f.c][f.i])

\* The loop of search (lines 136-145): candidate i of the cell on a clone.
StepSearch(pr, m, f) ==
    IF f.i > Len(f.self[f.c]) THEN [Return(m, "false") EXCEPT !.out = None]
    ELSE EnterAssign([SetTop(m, [f EXCEPT !.at = "assign"]) EXCEPT !.b = f.self],
                     f.c, f.self[f.c][f.i])

\* What the frame f does next without a return value to look at.
Continue(pr, m, f) ==
    CASE f.op = "assign" -> StepAssign(pr, m, f)
      [] f.op = "eliminate" /\ f.at = "peers" -> StepPeers(pr, m, f)
      [] f.op = "eliminate" /\ f.at = "units" -> StepUnits(pr, m, f)
      [] f.op = "search" -> StepSearch(pr, m, f)

\* An assign frame that goes on after a failed elimination.
Resume_assign_ignores(pr, m, f) ==
    CASE f.op = "eliminate" /\ m.ret = "false" -> Return(m, "false")
      [] f.op = "search" /\ f.at = "assign" /\ m.ret = "true" ->
            EnterSearch(SetTop(m, [f EXCEPT !.at = "search"]), m.b)
      [] f.op = "search" /\ f.at = "search" /\ m.ret = "true" -> Return(m, "true")
      [] f.op = "search" /\ m.ret = "false" ->
            StepSearch(pr, m, [f EXCEPT !.at = "loop", !.i = @ + 1])
      [] OTHER -> Continue(pr, m, f)

\* The frame f on top of the stack takes what its call returned:
\* false goes up from assign and eliminate (lines 82-84, 102-104, 118-120),
\* search calls search after a true assign (lines 139-140), hands a found
\* board up (lines 140-142) and else tries the next candidate.
Resume(pr, m, f) ==
    CASE f.op # "search" /\ m.ret = "false" -> Return(m, "false")
      [] f.op = "search" /\ f.at = "assign" /\ m.ret = "true" ->
            EnterSearch(SetTop(m, [f EXCEPT !.at = "search"]), m.b)
      [] f.op = "search" /\ f.at = "search" /\ m.ret = "true" -> Return(m, "true")
      [] f.op = "search" /\ m.ret = "false" ->
            StepSearch(pr, m, [f EXCEPT !.at = "loop", !.i = @ + 1])
      [] OTHER -> Continue(pr, m, f)

\* One step of the frame on top of the stack.
Step(pr, m) ==
    CASE m.ret # "none" -> Resume(pr, m, Top(m))
      [] OTHER -> Continue(pr, m, Top(m))

\* Up to n >= 1 steps, until the outermost call has returned.
RECURSIVE Run(_, _, _)
Run(pr, m, n) ==
    CASE m.stk = <<>> -> m
      [] m.stk # <<>> /\ n = 1 -> Step(pr, m)
      [] OTHER -> Run(pr, Run(pr, m, n \div 2), n - (n \div 2))

\* What a call on board b comes to: its bool, the board it leaves, and
\* whether it returned within MaxSteps steps.
CallResult(m) == [ok |-> m.ret = "true", b |-> m.b, returned |-> m.stk = <<>>]

\* An assign that truncates the cell to the value once it is done.
assign_truncate(pr, b, c, v) ==
    LET m == Run(pr, EnterAssign(Machine(b), c, v), MaxSteps)
    IN [ok |-> m.ret = "true", b |-> [m.b EXCEPT ![c] = <<v>>], returned |-> m.stk = <<>>]

assign(pr, b, c, v) == CallResult(Run(pr, EnterAssign(Machine(b), c, v), MaxSteps))

eliminate(pr, b, c, v) ==
    IF ~contains(b[c], v) THEN [ok |-> TRUE, b |-> b, returned |-> TRUE]
    ELSE CallResult(Run(pr, EnterEliminate(Machine(b), c, v), MaxSteps))

\* search: what it returns (Some(board) / None) and whether it returned.
search(pr, b) ==
    LET m == Run(pr, EnterSearch(Machine(b), b), MaxSteps)
    IN [some |-> m.out.some /\ m.ret = "true", b |-> m.out.b, returned |-> m.stk = <<>>]

-----------------------------------------------------------------------------
(* solve_puzzle (lines 228-250) *)

\* Characters are one-character strings.
DigitChar == [v \in 1 .. 9 |-> CASE v = 1 -> "1" [] v = 2 -> "2" [] v = 3 -> "3"
                                 [] v = 4 -> "4" [] v = 5 -> "5" [] v = 6 -> "6"
                                 [] v = 7 -> "7" [] v = 8 -> "8" [] v = 9 -> "9"]

\* char::to_digit(10): <<d>> for an ASCII digit, <<>> (None) otherwise.
to_digit(ch) ==
    IF ch = "0" THEN <<0>>
    ELSE IF \E v \in 1 .. 9 : DigitChar[v] = ch
    THEN <<CHOOSE v \in 1 .. 9 : DigitChar[v] = ch>>
    ELSE <<>>

\* The loop state: status "run" while the loop goes on, "none" after
\* `return None` (line 245), "panic" after an index out of range, "steps"
\* when assign was not followed to its return.
loadStart(b) == [status |-> "run", b |-> b, current |-> -1]

\* A loop body that counts a position only for a digit or a blank.
loadStep_skip_unknown(pr, st, ch) ==
    IF ch = "\n" \/ (ch # "0" /\ ch # "." /\ to_digit(ch) = <<>>) THEN st
    ELSE LET cur == st.current + 1
         IN IF ch = "0" \/ ch = "." THEN [st EXCEPT !.current = cur]
            ELSE IF ~index_ok(st.b, cur)
            THEN [status |-> "panic", b |-> st.b, current |-> cur]
            ELSE LET r == assign(pr, st.b, cur, to_digit(ch)[1])
                 IN [status |-> IF ~r.returned THEN "steps"
                                ELSE IF r.ok THEN "run" ELSE "none",
                     b |-> r.b, current |-> cur]

\* A loop body that goes on after an assign that returned false.
loadStep_ignores_false(pr, st, ch) ==
    IF ch = "\n" THEN st
    ELSE LET cur == st.current + 1
         IN IF ch = "0" \/ ch = "." THEN [st EXCEPT !.current = cur]
            ELSE IF to_digit(ch) = <<>> THEN [st EXCEPT !.current = cur]
            ELSE IF ~index_ok(st.b, cur)
            THEN [status |-> "panic", b |-> st.b, current |-> cur]
            ELSE [status |-> "run", b |-> assign(pr, st.b, cur, to_digit(ch)[1]).b,
                  current |-> cur]

\* One iteration of the loop of lines 235-248 on the character ch.
loadStep(pr, st, ch) ==
    IF ch = "\n" THEN st
    ELSE LET cur == st.current + 1
         IN IF ch = "0" \/ ch = "." THEN [st EXCEPT !.current = cur]
            ELSE IF to_digit(ch) = <<>> THEN [st EXCEPT !.current = cur]
            ELSE IF ~index_ok(st.b, cur)
            THEN [status |-> "panic", b |-> st.b, current |-> cur]
            ELSE LET r == assign(pr, st.b, cur, to_digit(ch)[1])
                 IN [status |-> IF ~r.returned THEN "steps"
                                ELSE IF r.ok THEN "run" ELSE "none",
                     b |-> r.b, current |-> cur]

\* The loop over s[lo..hi], left to right, until the status leaves "run".
RECURSIVE load(_, _, _, _, _)
load(pr, st, s, lo, hi) ==
    CASE lo > hi \/ st.status # "run" -> st
      [] lo = hi -> loadStep(pr, st, s[lo])
      [] OTHER -> load(pr, load(pr, st, s, lo, (lo + hi) \div 2), s, (lo + hi) \div 2 + 1, hi)

\* solve_puzzle as a function of its argument: how the call ends
\* ("returned", "panic", or "steps") and the Option it returns.
solve_puzzle(s) ==
    LET pr == make_units(BoxSide)
        st == load(pr, loadStart(new), s, 1, Len(s))
        r == search(pr, st.b)
    IN CASE st.status = "run" /\ r.returned -> [end |-> "returned", some |-> r.some, b |-> r.b]
         [] st.status = "run" /\ ~r.returned -> [end |-> "steps", some |-> FALSE, b |-> <<>>]
         [] st.status = "none" -> [end |-> "returned", some |-> FALSE, b |-> <<>>]
         [] OTHER -> [end |-> st.status, some |-> FALSE, b |-> <<>>]

-----------------------------------------------------------------------------
(* The grid as the rules of Sudoku describe it, independent of make_units  *)

RowAt(bs, c) == c \div (bs * bs)
ColAt(bs, c) == c % (bs * bs)
BoxAt(bs, c) == (RowAt(bs, c) \div bs) * bs + (ColAt(bs, c) \div bs)

\* c and d are two cells of one row, column or box of a grid of box side bs.
SharesUnitAt(bs, c, d) ==
    /\ c # d
    /\ \/ RowAt(bs, c) = RowAt(bs, d)
       \/ ColAt(bs, c) = ColAt(bs, d)
       \/ BoxAt(bs, c) = BoxAt(bs, d)

Row(c) == RowAt(BoxSide, c)
Col(c) == ColAt(BoxSide, c)
Box(c) == BoxAt(BoxSide, c)
SharesUnit(c, d) == SharesUnitAt(BoxSide, c, d)

RuleUnits ==
    {{c \in Cells : Row(c) = k} : k \in 0 .. (N - 1)}
    \cup {{c \in Cells : Col(c) = k} : k \in 0 .. (N - 1)}
    \cup {{c \in Cells : Box(c) = k} : k \in 0 .. (N - 1)}

\* A board whose every cell is determined and whose every row, column and
\* box holds each value exactly once.
IsSolvedGrid(bd) ==
    /\ DOMAIN bd = Cells
    /\ \A c \in Cells : Len(bd[c]) = 1 /\ bd[c][1] \in Values
    /\ \A u \in RuleUnits : \A v \in Values :
         Cardinality({c \in u : bd[c] = <<v>>}) = 1

Perms == {p \in [1 .. N -> Values] : \A i, j \in 1 .. N : i # j => p[i] # p[j]}

\* The completed grids row by row: the sequences of k rows, each a
\* permutation, that no column and no box contradicts.
RECURSIVE GridRows(_)
GridRows(k) ==
    IF k = 0 THEN {<<>>}
    ELSE {h \in {Append(g, p) : g \in GridRows(k - 1), p \in Perms} :
            \A r \in 1 .. (k - 1) : \A i, j \in 1 .. N :
               (i = j \/ ((r - 1) \div BoxSide = (k - 1) \div BoxSide
                          /\ (i - 1) \div BoxSide = (j - 1) \div BoxSide))
               => h[r][i] # h[k][j]}

\* Every completed grid, as a function from the cell to its value.
AllGrids == {[c \in Cells |-> rs[Row(c) + 1][Col(c) + 1]] : rs \in GridRows(N)}

-----------------------------------------------------------------------------
(* Inputs *)

Alphabet == {".", "0", "\n", "x"} \cup {DigitChar[v] : v \in Values}

Blanks(k) == [i \in 1 .. k |-> "."]

\* Well-formed puzzles of NCells characters with at most MaxClues digits:
\* the digits vs[1..k] at the cells cs[1] < ... < cs[k] <= MaxCell.
PuzzleInputs ==
    {[i \in 1 .. NCells |->
        IF \E j \in DOMAIN cs : cs[j] = i - 1
        THEN DigitChar[vs[CHOOSE j \in DOMAIN cs : cs[j] = i - 1]]
        ELSE "."] :
        cs \in UNION {{q \in [1 .. k -> OpCells] : \A j \in 1 .. (k - 1) : q[j] < q[j + 1]} :
                         k \in 0 .. MaxClues},
        vs \in [1 .. MaxClues -> Values]}

\* Four clues at cells where a first candidate of search can fail.
RetractCells == <<2, 7, 8, 11>>
RetractInputs ==
    {[i \in 1 .. NCells |->
        IF \E j \in DOMAIN RetractCells : RetractCells[j] = i - 1
        THEN DigitChar[vs[CHOOSE j \in DOMAIN RetractCells : RetractCells[j] = i - 1]]
        ELSE "."] :
        vs \in [DOMAIN RetractCells -> Values]}

\* The first m cells of a completed grid, the rest blank.
PrefixInputs ==
    {[i \in 1 .. NCells |-> IF i <= m THEN DigitChar[g[i - 1]] ELSE "."] :
        g \in AllGrids, m \in 0 .. NCells}

\* A run of blanks (none, one short of the grid, the whole grid) and then
\* up to MaxTail characters of any kind.
RaggedInputs ==
    {Blanks(k) \o t : k \in {0, NCells - 1, NCells},
                      t \in UNION {[1 .. n -> Alphabet] : n \in 0 .. MaxTail}}

Inputs == PuzzleInputs \cup RetractInputs \cup PrefixInputs \cup RaggedInputs

-----------------------------------------------------------------------------
(* State *)

VARIABLES
    s,        \* the argument of solve_puzzle
    pr,       \* the Problem built by make_units
    b,        \* the board
    pc,       \* where the call is
    current,  \* the loop's position counter (line 231)
    result,   \* what search returned to solve_puzzle
    last,     \* harness: the last call made on the board
    ret,      \* harness: what that call returned
    nops      \* harness: how many assign / eliminate calls were made

vars == <<s, pr, b, pc, current, result, last, ret, nops>>

NoProblem == [units |-> <<>>, peers |-> <<>>]
NoCall == [op |-> "none", c |-> 0, v |-> 0, had |-> FALSE]

(* solve_puzzle, one call *)

Init ==
    /\ s \in Inputs
    /\ pr = NoProblem
    /\ b = new
    /\ pc = "start"
    /\ current = -1
    /\ result = None
    /\ last = NoCall
    /\ ret = FALSE
    /\ nops = 0

\* Lines 229-231.
Enter ==
    /\ pc = "start"
    /\ pr' = make_units(BoxSide)
    /\ b' = new
    /\ current' = -1
    /\ pc' = "load"
    /\ UNCHANGED <<s, result, last, ret, nops>>

\* Lines 235-248: the whole loop.
Load ==
    /\ pc = "load"
    /\ LET st == load(pr, loadStart(b), s, 1, Len(s))
       IN /\ b' = st.b
          /\ current' = st.current
          /\ pc' = IF st.status = "run" THEN "search" ELSE st.status
    /\ UNCHANGED <<s, pr, result, last, ret, nops>>

\* Line 249.
Search ==
    /\ pc = "search"
    /\ result' = search(pr, b)
    /\ pc' = IF search(pr, b).returned THEN "done" ELSE "steps"
    /\ UNCHANGED <<s, pr, b, current, last, ret, nops>>

Next == Enter \/ Load \/ Search

Spec == Init /\ [][Next]_vars

(* The methods of Board, called one after another on one board *)

InitBoard ==
    /\ s = <<>>
    /\ pr = make_units(BoxSide)
    /\ b = new
    /\ pc = "ok"
    /\ current = -1
    /\ result = None
    /\ last = NoCall
    /\ ret = FALSE
    /\ nops = 0

Observed == last.op \in {"solved", "search"}

AssignOp ==
    /\ pc = "ok" /\ ~Observed /\ nops < MaxOps
    /\ \E c \in OpCells, v \in Values :
         LET r == assign(pr, b, c, v)
         IN /\ b' = r.b
            /\ ret' = r.ok
            /\ pc' = IF ~r.returned THEN "steps" ELSE IF r.ok THEN "ok" ELSE "failed"
            /\ last' = [op |-> "assign", c |-> c, v |-> v, had |-> contains(b[c], v)]
    /\ nops' = nops + 1
    /\ UNCHANGED <<s, pr, current, result>>

EliminateOp ==
    /\ pc = "ok" /\ ~Observed /\ nops < MaxOps
    /\ \E c \in OpCells, v \in Values :
         LET r == eliminate(pr, b, c, v)
         IN /\ b' = r.b
            /\ ret' = r.ok
            /\ pc' = IF ~r.returned THEN "steps" ELSE IF r.ok THEN "ok" ELSE "failed"
            /\ last' = [op |-> "eliminate", c |-> c, v |-> v, had |-> contains(b[c], v)]
    /\ nops' = nops + 1
    /\ UNCHANGED <<s, pr, current, result>>

\* solved takes &self: the board stays as it is.
SolvedOp ==
    /\ ~Observed
    /\ ret' = solved(b)
    /\ last' = [NoCall EXCEPT !.op = "solved"]
    /\ UNCHANGED <<s, pr, b, pc, current, result, nops>>

\* search works on clones (line 137) and returns one (line 133).
SearchOp ==
    /\ pc = "ok" /\ ~Observed
    /\ ret' = search(pr, b)
    /\ last' = [NoCall EXCEPT !.op = "search"]
    /\ pc' = IF search(pr, b).returned THEN pc ELSE "steps"
    /\ UNCHANGED <<s, pr, b, current, result, nops>>

NextBoard == AssignOp \/ EliminateOp \/ SolvedOp \/ SearchOp

SpecBoard == InitBoard /\ [][NextBoard]_vars

-----------------------------------------------------------------------------
(* What the properties are stated with *)

IsClue(ch) == \E v \in Values : DigitChar[v] = ch
IsBlank(ch) == ch = "." \/ ch = "0"
Digit(ch) == CHOOSE v \in Values : DigitChar[v] = ch

\* A puzzle: one character per cell, each a clue or a blank.
IsPuzzle(q) == Len(q) = NCells /\ \A i \in 1 .. NCells : IsClue(q[i]) \/ IsBlank(q[i])

\* The completed grids that agree with every clue of the puzzle q.
Completions(q) ==
    {g \in AllGrids : \A c \in Cells : IsClue(q[c + 1]) => g[c] = Digit(q[c + 1])}

\* The board that holds the grid g.
BoardOf(g) == [c \in Cells |-> <<g[c]>>]

\* The cell the character at index i of q stands for: newlines apart, the
\* characters count the cells from 0.
CellAt(q, i) == Cardinality({j \in 1 .. (i - 1) : q[j] # "\n"})

\* The pairs of clues of q that give one digit to two cells of one unit.
ConflictPairs(q) ==
    {p \in (DOMAIN q) \X (DOMAIN q) :
        /\ p[1] < p[2]
        /\ IsClue(q[p[1]]) /\ q[p[1]] = q[p[2]]
        /\ CellAt(q, p[2]) \in Cells
        /\ SharesUnit(CellAt(q, p[1]), CellAt(q, p[2]))}

\* The characters of q that are no digit, no blank and no newline.
Unrecognized(q) == {i \in DOMAIN q : to_digit(q[i]) = <<>> /\ q[i] # "." /\ q[i] # "\n"}

RemoveAt(q, i) == SubSeq(q, 1, i - 1) \o SubSeq(q, i + 1, Len(q))
ReplaceAt(q, i, ch) == [q EXCEPT ![i] = ch]

\* The call of solve_puzzle has ended, and how.
Ended == pc \in {"done", "none", "panic"}
Ending ==
    [end |-> IF pc = "panic" THEN "panic" ELSE "returned", some |-> result.some,
     b |-> result.b]

\* Status as the specification defines it.
RefStatus(bd) ==
    IF \E c \in Cells : Len(bd[c]) = 0 THEN Failed
    ELSE IF \A c \in Cells : Len(bd[c]) = 1 THEN Done
    ELSE NextCell(CHOOSE c \in Cells :
            /\ Len(bd[c]) >= 2
            /\ \A d \in Cells : Len(bd[d]) >= 2 => Len(bd[c]) <= Len(bd[d])
            /\ \A d \in Cells : d < c => Len(bd[d]) # Len(bd[c]))

\* Every determined cell's value is gone from the other cells of its
\* units, and every value has two places in a unit or one determined cell.
Fixpoint(bd) ==
    /\ \A c \in Cells : Len(bd[c]) = 1 =>
          \A d \in Cells : SharesUnit(c, d) => ~contains(bd[d], bd[c][1])
    /\ \A u \in RuleUnits : \A v \in Values :
          \/ Cardinality({c \in u : contains(bd[c], v)}) >= 2
          \/ /\ Cardinality({c \in u : contains(bd[c], v)}) = 1
             /\ \A c \in u : contains(bd[c], v) => bd[c] = <<v>>

\* The topology at the size of the source.
SourceProblem == make_units(SourceBoxSide)
SourceCells == 0 .. (SourceBoxSide * SourceBoxSide * SourceBoxSide * SourceBoxSide - 1)

\* The peer lists at the size of the source: the cell itself three times,
\* and the 20 other cells of its row, column and box.
SourcePeers ==
    \A c \in SourceCells :
        /\ Cardinality({k \in DOMAIN SourceProblem.peers[c] :
                          SourceProblem.peers[c][k] = c}) = 3
        /\ Range(SourceProblem.peers[c]) \ {c}
              = {d \in SourceCells : SharesUnitAt(SourceBoxSide, c, d)}
        /\ Cardinality(Range(SourceProblem.peers[c]) \ {c}) = 20

-----------------------------------------------------------------------------
(* Properties *)

\* C1: a board that solve_puzzle returns in Some has one candidate in
\* every cell, and every row, column and box of it holds each value once.
Soundness == (pc = "done" /\ result.some) => IsSolvedGrid(result.b)

Soundness_witness ==
    /\ pc = "done" /\ result.some
    /\ \E i \in DOMAIN s : IsClue(s[i])
    /\ IsSolvedGrid(result.b)

\* C2: for a puzzle whose clues some completed grid agrees with, loading
\* does not fail and leaves every value of every such grid a candidate;
\* search returns Some board that agrees with every clue, and the very
\* grid when only one agrees.
Completeness ==
    (IsPuzzle(s) /\ Completions(s) # {}) =>
        /\ pc \notin {"none", "panic", "steps"}
        /\ pc = "search" =>
              \A g \in Completions(s) : \A c \in Cells : contains(b[c], g[c])
        /\ pc = "done" =>
              /\ result.some
              /\ \A c \in Cells : IsClue(s[c + 1]) => result.b[c] = <<Digit(s[c + 1])>>
              /\ Cardinality(Completions(s)) = 1 =>
                    \A g \in Completions(s) : result.b = BoardOf(g)

Completeness_witness ==
    /\ pc = "done" /\ IsPuzzle(s) /\ result.some
    /\ Cardinality(Completions(s)) = 1
    /\ \E c \in Cells : IsBlank(s[c + 1])

NoIndexOutOfRange == pc # "panic"

\* C5 as stated: solve_puzzle ends as it does on the input with the
\* unrecognized character removed.
UnrecognizedRemoved ==
    Ended => \A i \in Unrecognized(s) : Ending = solve_puzzle(RemoveAt(s, i))

\* C5: an unrecognized character takes a cell position and assigns
\* nothing: solve_puzzle ends as it does on the input with a blank in the
\* place of the character.
UnrecognizedIsBlank ==
    Ended => \A i \in Unrecognized(s) : Ending = solve_puzzle(ReplaceAt(s, i, "."))

UnrecognizedIsBlank_witness ==
    /\ pc = "done" /\ result.some
    /\ \E i \in Unrecognized(s) : \E j \in DOMAIN s : i < j /\ IsClue(s[j])

\* C6: a call of assign, eliminate, solved or search leaves the board with
\* its cells and adds no candidate to any of them, whatever it returns, and
\* a board that search returns has no candidate the board did not have.
Monotone ==
    [][/\ DOMAIN b' = Cells
       /\ \A c \in Cells : Range(b'[c]) \subseteq Range(b[c])
       /\ (last'.op = "search" /\ ret'.some) =>
             /\ DOMAIN ret'.b = Cells
             /\ \A c \in Cells : Range(ret'.b[c]) \subseteq Range(b[c])]_vars

Monotone_witness ==
    /\ pc = "failed" /\ nops > 1
    /\ \E c \in Cells : Len(b[c]) = 0
    /\ \E c \in Cells : Len(b[c]) = N

\* C7: after assign(c, v) has returned true on a board that calls which
\* all returned true have led to, the cell c holds v alone, and v was a
\* candidate of c before the call.
AssignPost ==
    (last.op = "assign" /\ ret = TRUE) => (b[last.c] = <<last.v>> /\ last.had)

AssignPost_witness ==
    /\ last.op = "assign" /\ ret = TRUE /\ nops > 1
    /\ b[last.c] = <<last.v>>
    /\ \E c \in Cells : c # last.c /\ Len(b[c]) = 1

PeersExcludeSelf ==
    pc # "start" =>
        \A c \in Cells :
            /\ c \notin Range(pr.peers[c])
            /\ Range(pr.peers[c]) = {d \in Cells : SharesUnit(c, d)}

\* C9: the peer list of a cell is its three units one after the other, so
\* it holds the cell itself three times; the other cells in it are the
\* cells of its row, column and box and no others (20 at the size of the
\* source).
PeersIncludeSelf ==
    /\ pc # "start" =>
          \A c \in Cells :
              /\ Cardinality({k \in DOMAIN pr.peers[c] : pr.peers[c][k] = c}) = 3
              /\ Range(pr.peers[c]) \ {c} = {d \in Cells : SharesUnit(c, d)}
    /\ SourcePeers

PeersIncludeSelf_witness ==
    /\ pc = "load"
    /\ \A c \in Cells : c \in Range(pr.peers[c])
    /\ SourcePeers

\* C10: a board that calls of assign and eliminate which all returned true
\* have led to, and a board that search returns, is a fixpoint of the
\* propagation.
PropagationFixpoint ==
    /\ pc = "ok" => Fixpoint(b)
    /\ (last.op = "search" /\ ret.some) => Fixpoint(ret.b)

PropagationFixpoint_witness ==
    /\ pc = "ok" /\ nops > 1 /\ last.op = "eliminate"
    /\ \E c \in Cells : Len(b[c]) = 1
    /\ \E c \in Cells : Len(b[c]) = N
    /\ Fixpoint(b)

====
